---- MODULE Spec2Model ----
(***************************************************************************)
(* A model of solaris/sun.py: the NOAA solar calculator translated to      *)
(* Python (Julian dates, the solar-orbit chain, hour angle, azimuth,       *)
(* sunrise/sunset, the vectorised wrappers and the terminator).            *)
(*                                                                         *)
(* The library is a set of pure functions, so every specification below    *)
(* draws the arguments of one group of functions in its initial states and *)
(* then runs the functions, one action per call or per loop iteration.     *)
(*                                                                         *)
(* Numbers.  The code computes in IEEE doubles.  The model computes in     *)
(* fixed point: times in whole minutes (Julian days as a whole day count   *)
(* plus seconds), angles in whole degrees, and an explicit NaN.  Where the *)
(* code's rounding matters (calcGeomMeanLongSun, the local times of        *)
(* calcSunRiseSet) the rounding is part of the model.                      *)
(***************************************************************************)
EXTENDS Integers, Sequences, FiniteSets, TLC

VARIABLES
    \* getJD / get_jd2
    date, date2, jd, jdOther, jd2, jdpc,
    \* calcGeomMeanLongSun
    t, L0, gpc,
    \* calcAzEl
    azIn, trueSolarTime, hourAngle, apc,
    \* calcSunRiseSet
    rsIn, rtimeUTC, stimeUTC, rnewTimeUTC, snewTimeUTC,
    rtimeLocal, stimeLocal, increment, jday, rspc,
    \* vec_sunriseset
    julian_dates, locations, out, vpc,
    \* calcTerminator
    zen, ilat, term

jdVars   == <<date, date2, jd, jdOther, jd2, jdpc>>
geomVars == <<t, L0, gpc>>
azVars   == <<azIn, trueSolarTime, hourAngle, apc>>
rsVars   == <<rsIn, rtimeUTC, stimeUTC, rnewTimeUTC, snewTimeUTC,
              rtimeLocal, stimeLocal, increment, jday, rspc>>
vecVars  == <<julian_dates, locations, out, vpc>>
termVars == <<zen, ilat, term>>
vars     == <<jdVars, geomVars, azVars, rsVars, vecVars, termVars>>

(***************************************************************************)
(* Floating-point values: a number or NaN.  NaN is absorbing for           *)
(* arithmetic and makes every comparison false, as in IEEE 754.            *)
(***************************************************************************)
Num(x) == [nan |-> FALSE, v |-> x]
NaN    == [nan |-> TRUE, v |-> 0]

FAdd(a, b) == IF a.nan \/ b.nan THEN NaN ELSE Num(a.v + b.v)
FSub(a, b) == IF a.nan \/ b.nan THEN NaN ELSE Num(a.v - b.v)
FNeg(a)    == IF a.nan THEN NaN ELSE Num(0 - a.v)
FScale(k, a) == IF a.nan THEN NaN ELSE Num(k * a.v)
FLt(a, b)  == ~a.nan /\ ~b.nan /\ a.v < b.v
FGe(a, b)  == ~a.nan /\ ~b.nan /\ a.v >= b.v

\* x / d rounded to the nearest integer (d > 0)
RoundDiv(x, d) == (x + (d \div 2)) \div d

(***************************************************************************)
(* Julian dates: getJD (sun.py 475-489) and get_jd2 (sun.py 492-510).      *)
(*                                                                         *)
(* A Julian day is kept exactly as [whole, sec, us]: the value             *)
(* whole - 1/2 + (sec + us/10^6)/86400 days, with 0 <= sec < 86400 and     *)
(* 0 <= us < 10^6, so that the order of the values is the lexicographic    *)
(* order of the records.                                                   *)
(***************************************************************************)
Years   == {4, 5, 1582, 1999, 2000}
Months  == {1, 2, 3, 12}
Days    == {1, 28, 31}
Hours   == {0, 23}
Seconds == {0, 59}

DaysIn(m) == IF m = 2 THEN 28 ELSE IF m \in {4, 6, 9, 11} THEN 30 ELSE 31

\* the date-times drawn as arguments (datetime objects: valid calendar dates)
Dates == { d \in [year : Years, month : Months, day : Days, hour : Hours,
                  minute : {0}, second : Seconds, microsecond : {0}] :
             d.day <= DaysIn(d.month) }

\* d1 precedes d2 in (year, month, day, hour, minute, second) order
Precedes(d1, d2) ==
    LET k1 == <<d1.year, d1.month, d1.day, d1.hour, d1.minute, d1.second>>
        k2 == <<d2.year, d2.month, d2.day, d2.hour, d2.minute, d2.second>>
    IN \E i \in 1..6 : k1[i] < k2[i] /\ \A j \in 1..(i - 1) : k1[j] = k2[j]

JdLess(a, b) ==
    \/ a.whole < b.whole
    \/ a.whole = b.whole /\ a.sec < b.sec
    \/ a.whole = b.whole /\ a.sec = b.sec /\ a.us < b.us

\* np.floor(365.25 * y) and np.floor(30.6001 * m), exactly
Floor365_25(y) == (1461 * y) \div 4
Floor30_6001(m) == (306001 * m) \div 10000

\* B = 2 - A + floor(A/4) with A = floor(year/100)
GregorianTerm(year) == 2 - (year \div 100) + ((year \div 100) \div 4)

\* floor(365.25*(year+4716)) + floor(30.6001*(month+1)) + day - 1524.5,
\* as the whole part of the record (the -1/2 is the record's)
WholeDays(year, month, day) ==
    Floor365_25(year + 4716) + Floor30_6001(month + 1) + day - 1524

\* sun.py 481-483: date.replace(year=...) returns a new datetime that is
\* dropped, so the year stays; date += relativedelta(month=12) sets the
\* month to 12 (an absolute field), so January becomes December.
JanuaryAdjust(d) ==
    IF d.month < 2 THEN [d EXCEPT !.month = 12] ELSE d

getJD(d) ==
    LET a == JanuaryAdjust(d)
        B == GregorianTerm(a.year)
    IN [whole |-> WholeDays(a.year, a.month, a.day) + B,
        sec   |-> a.hour * 3600 + a.minute * 60 + a.second,
        us    |-> 0]

\* julian_day <= 2299160.0 (sun.py 507) on the record
AtOrBeforeCutover(j) ==
    \/ j.whole < 2299160
    \/ j.whole = 2299160 /\ (j.sec < 43200 \/ (j.sec = 43200 /\ j.us = 0))

ShiftedYear(d)  == IF d.month <= 2 THEN d.year - 1 ELSE d.year
ShiftedMonth(d) == IF d.month <= 2 THEN d.month + 12 ELSE d.month

\* sun.py 506: the julian_day of get_jd2 before any offset
Jd2Uncorrected(d) ==
    [whole |-> WholeDays(ShiftedYear(d), ShiftedMonth(d), d.day),
     sec   |-> d.hour * 3600 + d.minute * 60 + d.second,
     us    |-> d.microsecond]

get_jd2(d) ==
    LET gregorian_offset == GregorianTerm(ShiftedYear(d))
        julian_day == Jd2Uncorrected(d)
    IN IF AtOrBeforeCutover(julian_day)
       THEN julian_day
       ELSE [julian_day EXCEPT !.whole = @ + gregorian_offset]

NoJd == [whole |-> 0, sec |-> 0, us |-> 0]

\* getJD on both dates
CallGetJD ==
    /\ jdpc = "getJD"
    /\ jd' = getJD(date)
    /\ jdOther' = getJD(date2)
    /\ jdpc' = "get_jd2"
    /\ UNCHANGED <<date, date2, jd2>>
    /\ UNCHANGED <<geomVars, azVars, rsVars, vecVars, termVars>>

\* get_jd2 on the first date
CallGetJd2 ==
    /\ jdpc = "get_jd2"
    /\ jd2' = get_jd2(date)
    /\ jdpc' = "done"
    /\ UNCHANGED <<date, date2, jd, jdOther>>
    /\ UNCHANGED <<geomVars, azVars, rsVars, vecVars, termVars>>

JdNext == CallGetJD \/ CallGetJd2

(***************************************************************************)
(* calcGeomMeanLongSun (sun.py 72-81).                                     *)
(*                                                                         *)
(* t is in units of 10^-6 century.  The polynomial is evaluated in         *)
(* micro-degrees and its result is rounded to the grid of representable    *)
(* values, as every double operation is; the grid is 1/10 degree, coarser  *)
(* than one step of t moves the polynomial, as the grid of doubles near    *)
(* 360 is coarser than one step of a double t near 0.002 moves it.  L0 is  *)
(* held in grid units (tenths of a degree).                                *)
(***************************************************************************)
GridPerDegree == 10
MicroPerGrid  == 1000000 \div GridPerDegree
Deg360        == 360 * GridPerDegree

\* half-width of each window of t values
TWin == 30
\* t (10^-6 century) where the polynomial is near -360, 0, 360, 720, 1080
TCenters == {-17790, -7791, 2209, 12209, 22209}
TValues == UNION { (c - TWin)..(c + TWin) : c \in TCenters }

\* 36000.76983 + t*0.0003032: the fraction in 10^-5 degree per century
GeomInnerFrac(n) == 76983 + RoundDiv(n * 3032, 100000000)

\* 280.46646 + t*(36000.76983 + t*0.0003032), rounded to the grid
GeomPolynomial(n) ==
    LET micro == 280466460 + n * 36000 + RoundDiv(n * GeomInnerFrac(n), 100000)
    IN RoundDiv(micro, MicroPerGrid)

\* while L0 > 360.0 (sun.py 77)
GeomTooLarge(x) == x > Deg360
\* while L0 < 0.0 (sun.py 79)
GeomNegative(x) == x < 0

GeomFrame == UNCHANGED <<jdVars, azVars, rsVars, vecVars, termVars>>

GeomPoly ==
    /\ gpc = "poly"
    /\ L0' = GeomPolynomial(t)
    /\ gpc' = "sub"
    /\ UNCHANGED t
    /\ GeomFrame

GeomSubtract ==
    /\ gpc = "sub"
    /\ GeomTooLarge(L0)
    /\ L0' = L0 - Deg360
    /\ UNCHANGED <<t, gpc>>
    /\ GeomFrame

GeomSubtractDone ==
    /\ gpc = "sub"
    /\ ~GeomTooLarge(L0)
    /\ gpc' = "add"
    /\ UNCHANGED <<t, L0>>
    /\ GeomFrame

GeomAdd ==
    /\ gpc = "add"
    /\ GeomNegative(L0)
    /\ L0' = L0 + Deg360
    /\ UNCHANGED <<t, gpc>>
    /\ GeomFrame

GeomReturn ==
    /\ gpc = "add"
    /\ ~GeomNegative(L0)
    /\ gpc' = "done"
    /\ UNCHANGED <<t, L0>>
    /\ GeomFrame

GeomNext == GeomPoly \/ GeomSubtract \/ GeomSubtractDone \/ GeomAdd \/ GeomReturn

(***************************************************************************)
(* Time and the solar quantities of one instant.                           *)
(*                                                                         *)
(* A Julian date argument is held in minutes past JD 2451000.0, and        *)
(* Julian centuries in minutes past J2000.0 (1 century = 36525*1440        *)
(* minutes).  calcSunDeclination and calcEquationOfTime are tabulated: the *)
(* year is cut into twelve bins of 31 days counted from J2000.0 and each   *)
(* bin holds the value of the code's formula at its middle, rounded to a   *)
(* whole degree (minute).                                                  *)
(***************************************************************************)
MinutesPerDay == 1440
EpochJ2000 == 545 * MinutesPerDay

\* calcTimeJulianCent (sun.py 64-69): T = (jd - 2451545.0)/36525.0
calcTimeJulianCent(j) == FSub(j, Num(EpochJ2000))

SolarBin(T) == (((T \div MinutesPerDay) % 365) \div 31) + 1

DeclinationTable == <<-21, -12, -1, 11, 20, 23, 20, 12, 1, -11, -20, -23>>
EqTimeTable      == <<-10, -14, -8, 1, 3, -2, -6, -3, 7, 16, 14, 1>>

\* calcSunDeclination (degrees) and calcEquationOfTime (minutes)
calcSunDeclination(T) == IF T.nan THEN NaN ELSE Num(DeclinationTable[SolarBin(T.v)])
calcEquationOfTime(T) == IF T.nan THEN NaN ELSE Num(EqTimeTable[SolarBin(T.v)])

(***************************************************************************)
(* calcAzEl (sun.py 226-242): the true solar time and the hour angle.      *)
(* The zenith, azimuth and refraction that follow read hourAngle and       *)
(* write neither of the two.  hourAngle is held in quarter degrees, so     *)
(* that trueSolarTime/4 - 180 is exact: hourAngle = trueSolarTime - 720.   *)
(***************************************************************************)
AzLocalTimes == {0, 719, 1439}
AzLongitudes == {-180, -90, 0, 90, 180}
AzZones      == {-12, 0, 12}
\* Julian centuries in bins 2, 4 and 10 (equation of time -14, 1, 16)
AzCenturies  == {45 * MinutesPerDay, 107 * MinutesPerDay, 293 * MinutesPerDay}

AzInputs == [t : AzCenturies, localtime : AzLocalTimes,
             longitude : AzLongitudes, zone : AzZones]

\* while trueSolarTime > 1440 (sun.py 237)
AzTooLarge(x) == x > 1440

\* sun.py 240-242, in quarter degrees
AzHourAngle(tst) ==
    LET ha == tst - 4 * 180
    IN IF ha < 0 - 4 * 180 THEN ha + 4 * 360 ELSE ha

AzFrame == UNCHANGED <<jdVars, geomVars, rsVars, vecVars, termVars>>

\* sun.py 230-236
AzStart ==
    /\ apc = "start"
    /\ LET eqTime == calcEquationOfTime(Num(azIn.t)).v
           solarTimeFix == eqTime + 4 * azIn.longitude - 60 * azIn.zone
       IN trueSolarTime' = azIn.localtime + solarTimeFix
    /\ apc' = "wrap"
    /\ UNCHANGED <<azIn, hourAngle>>
    /\ AzFrame

AzWrap ==
    /\ apc = "wrap"
    /\ AzTooLarge(trueSolarTime)
    /\ trueSolarTime' = trueSolarTime - 1440
    /\ UNCHANGED <<azIn, hourAngle, apc>>
    /\ AzFrame

AzSetHourAngle ==
    /\ apc = "wrap"
    /\ ~AzTooLarge(trueSolarTime)
    /\ hourAngle' = AzHourAngle(trueSolarTime)
    /\ apc' = "done"
    /\ UNCHANGED <<azIn, trueSolarTime>>
    /\ AzFrame

AzNext == AzStart \/ AzWrap \/ AzSetHourAngle

(***************************************************************************)
(* Trigonometry on whole degrees.  np.cos(np.radians(x)) is the table      *)
(* CosTable (10^4 * cos, one entry per degree of 0..180), np.sin and       *)
(* np.tan follow from it, and np.arccos inverts it; radians are held in    *)
(* milliradians.                                                           *)
(***************************************************************************)
TrigScale == 10000

CosTable ==
    <<
       10000, 9998, 9994, 9986, 9976, 9962, 9945, 9925, 9903, 9877,
       9848, 9816, 9781, 9744, 9703, 9659, 9613, 9563, 9511, 9455,
       9397, 9336, 9272, 9205, 9135, 9063, 8988, 8910, 8829, 8746,
       8660, 8572, 8480, 8387, 8290, 8192, 8090, 7986, 7880, 7771,
       7660, 7547, 7431, 7314, 7193, 7071, 6947, 6820, 6691, 6561,
       6428, 6293, 6157, 6018, 5878, 5736, 5592, 5446, 5299, 5150,
       5000, 4848, 4695, 4540, 4384, 4226, 4067, 3907, 3746, 3584,
       3420, 3256, 3090, 2924, 2756, 2588, 2419, 2250, 2079, 1908,
       1736, 1564, 1392, 1219, 1045, 872, 698, 523, 349, 175,
       0, -175, -349, -523, -698, -872, -1045, -1219, -1392, -1564,
       -1736, -1908, -2079, -2250, -2419, -2588, -2756, -2924, -3090, -3256,
       -3420, -3584, -3746, -3907, -4067, -4226, -4384, -4540, -4695, -4848,
       -5000, -5150, -5299, -5446, -5592, -5736, -5878, -6018, -6157, -6293,
       -6428, -6561, -6691, -6820, -6947, -7071, -7193, -7314, -7431, -7547,
       -7660, -7771, -7880, -7986, -8090, -8192, -8290, -8387, -8480, -8572,
       -8660, -8746, -8829, -8910, -8988, -9063, -9135, -9205, -9272, -9336,
       -9397, -9455, -9511, -9563, -9613, -9659, -9703, -9744, -9781, -9816,
       -9848, -9877, -9903, -9925, -9945, -9962, -9976, -9986, -9994, -9998,
       -10000 >>

Abs(x) == IF x < 0 THEN 0 - x ELSE x

\* np.cos(np.radians(d)), np.sin(np.radians(d)), np.tan(np.radians(d))
CosDeg(d) == CosTable[Abs(d) + 1]
SinDeg(d) == IF d < 0 THEN 0 - CosTable[90 + d + 1] ELSE CosTable[90 - d + 1]
TanDeg(d) == RoundDiv(SinDeg(d) * TrigScale, CosDeg(d))

\* np.radians and np.degrees between whole degrees and milliradians
Radians(d) == RoundDiv(d * 17453, 1000)
Degrees(r) == IF r.nan THEN NaN ELSE Num(RoundDiv(r.v * 1000, 17453))

\* np.arccos, in milliradians: nan outside [-1, 1] (numpy warns and
\* returns nan; it does not raise)
ArccosClamped(x) ==
    LET y == IF x > TrigScale THEN TrigScale
             ELSE IF x < 0 - TrigScale THEN 0 - TrigScale ELSE x
    IN Num(Radians(CHOOSE d \in 0..180 :
                     CosTable[d + 1] >= y /\ (d = 180 \/ CosTable[d + 2] < y)))
Arccos(x) ==
    IF x > TrigScale \/ x < 0 - TrigScale
    THEN NaN
    ELSE Num(Radians(CHOOSE d \in 0..180 :
                       CosTable[d + 1] >= x /\ (d = 180 \/ CosTable[d + 2] < x)))

\* np.cos(np.radians(90.833)), times 10^4
Cos90_833 == 0 - 145

\* HAarg of calcHourAngleSunrise (sun.py 221), times 10^4
HourAngleArg(lat, solarDec) ==
    LET denom == RoundDiv(CosDeg(lat) * CosDeg(solarDec), TrigScale)
    IN RoundDiv(Cos90_833 * TrigScale, denom)
         - RoundDiv(TanDeg(lat) * TanDeg(solarDec), TrigScale)

\* calcHourAngleSunrise (sun.py 215-223): lat a whole degree, solarDec a
\* float; the result in radians
calcHourAngleSunrise(lat, solarDec) ==
    IF solarDec.nan THEN NaN ELSE Arccos(HourAngleArg(lat, solarDec.v))

\* calcSolNoonUTC (sun.py 290-297)
calcSolNoonUTC(j, longitude) ==
    LET tnoon == calcTimeJulianCent(j)
        eqTime == calcEquationOfTime(tnoon)
    IN FSub(Num(720 - longitude * 4), eqTime)

\* sun.py 363: the hour angle used for the set time
SetHourAngleSame(h) == h
SetHourAngle(h) == FNeg(h)

\* calcSunRiseSetUTC (sun.py 351-366): <<riseTimeUTC, setTimeUTC>>
calcSunRiseSetUTC(j, latitude, longitude) ==
    LET T == calcTimeJulianCent(j)
        eqTime == calcEquationOfTime(T)
        solarDec == calcSunDeclination(T)
        hourAngleRise == calcHourAngleSunrise(latitude, solarDec)
        deltaRise == FAdd(Num(longitude), Degrees(hourAngleRise))
        riseTimeUTC == FSub(FSub(Num(720), FScale(4, deltaRise)), eqTime)
        hourAngleSet == SetHourAngle(hourAngleRise)
        deltaSet == FAdd(Num(longitude), Degrees(hourAngleSet))
        setTimeUTC == FSub(FSub(Num(720), FScale(4, deltaSet)), eqTime)
    IN <<riseTimeUTC, setTimeUTC>>

(***************************************************************************)
(* calcSunRiseSet (sun.py 415-441), one action per step and per loop       *)
(* iteration.                                                              *)
(***************************************************************************)
\* days past J2000.0 (0h UT) of the dates drawn, in bins 1, 3, 6, 6|7, 12
RsDays       == {15, 79, 170, 185, 355}
RsLatitudes  == {-70, 0, 40, 66, 70}
RsLongitudes == {-180, -75, 17, 180}

\* Local times (sun.py 422-439).  A double near 1440 is one of a coarser
\* set of values than a double near 0, so x + 1440.0 is rounded.  The model
\* keeps that: a local time is a count of ticks, 8 to the minute, and the
\* values it can take are spaced as those of a binary float with a 12-bit
\* mantissa (whole ticks below 512 minutes, then twice as far apart from
\* each power of two on).  UTC times stay whole minutes, which are exact.
TicksPerMinute == 8
Ticks(minutes) == minutes * TicksPerMinute

\* the spacing of the values of magnitude m, in ticks
Ulp(m) ==
    IF m < Ticks(512) THEN 1
    ELSE IF m < Ticks(1024) THEN 2
    ELSE IF m < Ticks(2048) THEN 4
    ELSE IF m < Ticks(4096) THEN 8
    ELSE 16

\* x rounded to the nearest multiple of u, a tie to the even multiple
RoundNearestEven(x, u) ==
    LET q == x \div u
        r == x - q * u
    IN IF 2 * r < u THEN q * u
       ELSE IF 2 * r > u THEN (q + 1) * u
       ELSE IF q % 2 = 0 THEN q * u ELSE (q + 1) * u

\* the double nearest to x
RoundTime(x) == RoundNearestEven(x, Ulp(Abs(x)))

\* a + b on local times
LocalAdd(a, b) == IF a.nan \/ b.nan THEN NaN ELSE Num(RoundTime(a.v + b.v))

\* the normalization loops are followed while the local time is within
\* this many minutes of 0
MaxLocalMinutes == 4096

\* timezone * 60.0, in ticks: whole hours, 5 h 30 min, and the zone that
\* puts the sunrise of day 170 at latitude 40, longitude -75 one tick
\* before local midnight
RsTimezones  == { Ticks(h * 60) : h \in {-30, -12, -5, 0, 12, 30} }
                  \cup {Ticks(330), 0 - (Ticks(574) + 1)}

JdOfDay(d) == EpochJ2000 + d * MinutesPerDay + 720

RsInputs == [jd : { JdOfDay(d) : d \in RsDays }, latitude : RsLatitudes,
             longitude : RsLongitudes, timezone : RsTimezones, dst : BOOLEAN]

\* rtimeLocal < 0.0 or rtimeLocal >= 1440.0 (sun.py 424, 427, 434, 437)
OutOfDay(x) == FLt(x, Num(0)) \/ FGe(x, Num(Ticks(1440)))

\* newTimeUTC + (timezone * 60.0), + 60.0 if dst (sun.py 422-423, 432-433)
LocalTime(newTimeUTC, timezone, dst) ==
    LocalAdd(LocalAdd(FScale(TicksPerMinute, newTimeUTC), Num(timezone)),
             Num(IF dst THEN Ticks(60) ELSE 0))

\* the loop is followed from this local time
Followed(x) == Abs(x.v) < Ticks(MaxLocalMinutes)

Unbound == [bound |-> FALSE, v |-> 0]
Bound(x) == [bound |-> TRUE, v |-> x]

RsFrame == UNCHANGED <<jdVars, geomVars, azVars, vecVars, termVars>>

\* sun.py 419-423
RsStart ==
    /\ rspc = "start"
    /\ LET utc == calcSunRiseSetUTC(Num(rsIn.jd), rsIn.latitude, rsIn.longitude)
           new == calcSunRiseSetUTC(FAdd(Num(rsIn.jd), utc[1]),
                                    rsIn.latitude, rsIn.longitude)
       IN /\ rtimeUTC' = utc[1]
          /\ stimeUTC' = utc[2]
          /\ rnewTimeUTC' = new[1]
          /\ snewTimeUTC' = new[2]
          /\ rtimeLocal' = LocalTime(new[1], rsIn.timezone, rsIn.dst)
    /\ rspc' = "riseIf"
    /\ UNCHANGED <<rsIn, stimeLocal, increment, jday>>
    /\ RsFrame

\* sun.py 424-426
RsRiseEnter ==
    /\ rspc = "riseIf"
    /\ OutOfDay(rtimeLocal)
    /\ jday' = Bound(rsIn.jd)
    /\ increment' = Bound(IF FLt(rtimeLocal, Num(0)) THEN 1 ELSE 0 - 1)
    /\ rspc' = "riseLoop"
    /\ UNCHANGED <<rsIn, rtimeUTC, stimeUTC, rnewTimeUTC, snewTimeUTC,
                   rtimeLocal, stimeLocal>>
    /\ RsFrame

RsRiseSkip ==
    /\ rspc = "riseIf"
    /\ ~OutOfDay(rtimeLocal)
    /\ rspc' = "set"
    /\ UNCHANGED <<rsIn, rtimeUTC, stimeUTC, rnewTimeUTC, snewTimeUTC,
                   rtimeLocal, stimeLocal, increment, jday>>
    /\ RsFrame

\* sun.py 427-429
RsRiseLoop ==
    /\ rspc = "riseLoop"
    /\ OutOfDay(rtimeLocal)
    /\ Followed(rtimeLocal)
    /\ rtimeLocal' = LocalAdd(rtimeLocal, Num(increment.v * Ticks(1440)))
    /\ jday' = Bound(jday.v - increment.v * MinutesPerDay)
    /\ UNCHANGED <<rsIn, rtimeUTC, stimeUTC, rnewTimeUTC, snewTimeUTC,
                   stimeLocal, increment, rspc>>
    /\ RsFrame

RsRiseLoopExit ==
    /\ rspc = "riseLoop"
    /\ ~OutOfDay(rtimeLocal)
    /\ rspc' = "set"
    /\ UNCHANGED <<rsIn, rtimeUTC, stimeUTC, rnewTimeUTC, snewTimeUTC,
                   rtimeLocal, stimeLocal, increment, jday>>
    /\ RsFrame

\* sun.py 431-433
RsSetStart ==
    /\ rspc = "set"
    /\ LET new == calcSunRiseSetUTC(FAdd(Num(rsIn.jd), stimeUTC),
                                    rsIn.latitude, rsIn.longitude)
       IN /\ rnewTimeUTC' = new[1]
          /\ snewTimeUTC' = new[2]
          /\ stimeLocal' = LocalTime(new[2], rsIn.timezone, rsIn.dst)
    /\ rspc' = "setIf"
    /\ UNCHANGED <<rsIn, rtimeUTC, stimeUTC, rtimeLocal, increment, jday>>
    /\ RsFrame

\* sun.py 434-436
RsSetEnter ==
    /\ rspc = "setIf"
    /\ OutOfDay(stimeLocal)
    /\ jday' = Bound(rsIn.jd)
    /\ increment' = Bound(IF FLt(stimeLocal, Num(0)) THEN 1 ELSE 0 - 1)
    /\ rspc' = "setLoop"
    /\ UNCHANGED <<rsIn, rtimeUTC, stimeUTC, rnewTimeUTC, snewTimeUTC,
                   rtimeLocal, stimeLocal>>
    /\ RsFrame

RsSetSkip ==
    /\ rspc = "setIf"
    /\ ~OutOfDay(stimeLocal)
    /\ rspc' = "done"
    /\ UNCHANGED <<rsIn, rtimeUTC, stimeUTC, rnewTimeUTC, snewTimeUTC,
                   rtimeLocal, stimeLocal, increment, jday>>
    /\ RsFrame

\* sun.py 437-439
RsSetLoop ==
    /\ rspc = "setLoop"
    /\ OutOfDay(stimeLocal)
    /\ Followed(stimeLocal)
    /\ stimeLocal' = LocalAdd(stimeLocal, Num(increment.v * Ticks(1440)))
    /\ jday' = Bound(jday.v - increment.v * MinutesPerDay)
    /\ UNCHANGED <<rsIn, rtimeUTC, stimeUTC, rnewTimeUTC, snewTimeUTC,
                   rtimeLocal, increment, rspc>>
    /\ RsFrame

\* sun.py 441: return rtimeLocal, stimeLocal
RsSetLoopExit ==
    /\ rspc = "setLoop"
    /\ ~OutOfDay(stimeLocal)
    /\ rspc' = "done"
    /\ UNCHANGED <<rsIn, rtimeUTC, stimeUTC, rnewTimeUTC, snewTimeUTC,
                   rtimeLocal, stimeLocal, increment, jday>>
    /\ RsFrame

RsNext ==
    \/ RsStart \/ RsRiseEnter \/ RsRiseSkip \/ RsRiseLoop \/ RsRiseLoopExit
    \/ RsSetStart \/ RsSetEnter \/ RsSetSkip \/ RsSetLoop \/ RsSetLoopExit

(***************************************************************************)
(* vec_sunriseset (sun.py 368-412).  A 1-D array is a sequence; the 2-D    *)
(* array of np.c_ is a sequence of rows; reshape reads the elements in     *)
(* C order.                                                                *)
(***************************************************************************)
MaxDates    == 2
MaxStations == 2

VecDays      == {79, 170, 355}
VecLatitudes == {0, 66, 70}
VecLongitudes == {-75, 17}

SeqsUpTo(S, n) == UNION { [1..k -> S] : k \in 1..n }

\* np.tile(a, n): the whole array n times over
Tile(a, n) == [i \in 1..(Len(a) * n) |-> a[((i - 1) % Len(a)) + 1]]
\* np.repeat(a, n): each element n times in a row
RepeatAsTile(a, n) == [i \in 1..(Len(a) * n) |-> a[((i - 1) % Len(a)) + 1]]
Repeat(a, n) == [i \in 1..(Len(a) * n) |-> a[((i - 1) \div n) + 1]]

\* np.c_[a, b]: the two 1-D arrays as the columns of a 2-D array
ColumnStack(a, b) == [i \in 1..Len(a) |-> <<a[i], b[i]>>]

\* the elements of an (n, 2) array in C order
Ravel2(rows) ==
    [k \in 1..(2 * Len(rows)) |-> rows[((k - 1) \div 2) + 1][((k - 1) % 2) + 1]]

\* rows.reshape((n, m, 2))
Reshape3(rows, n, m) ==
    LET flat == Ravel2(rows)
    IN [d \in 1..n |-> [s \in 1..m |->
          [k \in 1..2 |-> flat[((d - 1) * m + (s - 1)) * 2 + k]]]]

vec_sunriseset(dates, locs) ==
    LET n_dates == Len(dates)
        n_stations == Len(locs)
        julian_cents == [i \in 1..n_dates |-> calcTimeJulianCent(dates[i])]
        eq_time0 == [i \in 1..n_dates |-> calcEquationOfTime(julian_cents[i])]
        solar_dec0 == [i \in 1..n_dates |-> calcSunDeclination(julian_cents[i])]
        solar_dec == Repeat(solar_dec0, n_stations)
        latitude == Tile([i \in 1..n_stations |-> locs[i][1]], n_dates)
        longitude == Tile([i \in 1..n_stations |-> locs[i][2]], n_dates)
        size == n_dates * n_stations
        hour_angle == [i \in 1..size |->
                         calcHourAngleSunrise(latitude[i], solar_dec[i])]
        eq_time == Repeat(eq_time0, n_stations)
        deltaRise == [i \in 1..size |->
                        FAdd(Num(longitude[i]), Degrees(hour_angle[i]))]
        rise_time == [i \in 1..size |->
                        FSub(FSub(Num(720), FScale(4, deltaRise[i])), eq_time[i])]
        hour_angle_set == [i \in 1..size |-> FNeg(hour_angle[i])]
        deltaSet == [i \in 1..size |->
                        FAdd(Num(longitude[i]), Degrees(hour_angle_set[i]))]
        set_time == [i \in 1..size |->
                        FSub(FSub(Num(720), FScale(4, deltaSet[i])), eq_time[i])]
    IN Reshape3(ColumnStack(rise_time, set_time), n_dates, n_stations)

VecSunRiseSet ==
    /\ vpc = "start"
    /\ out' = vec_sunriseset(julian_dates, locations)
    /\ vpc' = "done"
    /\ UNCHANGED <<julian_dates, locations>>
    /\ UNCHANGED <<jdVars, geomVars, azVars, rsVars, termVars>>

VecNext == VecSunRiseSet

(***************************************************************************)
(* calcTerminator (sun.py 444-472).  The grid is NPoints by NPoints (50 in *)
(* the code).  The solar zenith angle calcAzEl returns for a grid point is *)
(* drawn from ZenValues, so that a = 90 - zen ranges over -2..1;           *)
(* longitudes are in arc-minutes.                                          *)
(***************************************************************************)
NPoints == 3

ZenValues == {89, 90, 91, 92}
TermLatitudes  == <<-60, 60>>
TermLongitudes == <<-10800, 10800>>

\* np.linspace(r[0], r[1], num=n)[i], 1-based
Linspace(r, n, i) == r[1] + ((i - 1) * (r[2] - r[1])) \div (n - 1)

lats(i) == Linspace(TermLatitudes, NPoints, i)
lons(i) == Linspace(TermLongitudes, NPoints, i)

\* a[1:]*a[:-1] <= 0, at 1-based position i of the shorter array
ProductNotPositive(a, i) == a[i + 1] * a[i] <= 0

\* sun.py 462-463
Mins(a, i) ==
    \/ i > 1 /\ ProductNotPositive(a, i - 1)
    \/ i < Len(a) /\ ProductNotPositive(a, i)

\* sun.py 464: mins & np.r_[False, a[1:] < a[:-1]]
ZminDescending(a, i) == Mins(a, i) /\ i > 1 /\ a[i] < a[i - 1]
\* sun.py 468: mins & np.r_[a[:-1] < a[1:], False]
ZminAscending(a, i) == Mins(a, i) /\ i < Len(a) /\ a[i] < a[i + 1]

\* the indices from i on that a boolean mask selects, in increasing order
RECURSIVE Selected(_, _)
Selected(mask, i) ==
    IF i > Len(mask) THEN <<>>
    ELSE (IF mask[i] THEN <<i>> ELSE <<>>) \o Selected(mask, i + 1)

Reverse(q) == [i \in 1..Len(q) |-> q[Len(q) + 1 - i]]

\* np.interp(x, xp, fp): the end values outside xp, else linear between the
\* two neighbours found by numpy's search from the left
Interp(x, xp, fp) ==
    LET n == Len(xp)
    IN IF x > xp[n] THEN fp[n]
       ELSE IF x < xp[1] THEN fp[1]
       ELSE LET later == { i \in 2..n : x < xp[i] }
                j == IF later = {} THEN n
                     ELSE (CHOOSE i \in later : \A k \in later : i <= k) - 1
            IN IF j = n \/ xp[j] = x THEN fp[j]
               ELSE LET dx == xp[j + 1] - xp[j]
                        num == (fp[j + 1] - fp[j]) * (x - xp[j])
                    IN fp[j] + (IF dx > 0 THEN RoundDiv(num, dx)
                                ELSE RoundDiv(0 - num, 0 - dx))

\* one pass of the loop over ilat (sun.py 458-471) on the row's samples:
\* the terminator list after the row
TermAfterRow(tm, row, lat) ==
    LET a == [i \in 1..Len(row) |-> 90 - row[i]]
        idxD == Reverse(Selected([i \in 1..Len(a) |-> ZminDescending(a, i)], 1))
        idxA == Selected([i \in 1..Len(a) |-> ZminAscending(a, i)], 1)
        pick(idx) == Interp(0, [k \in 1..Len(idx) |-> a[idx[k]]],
                               [k \in 1..Len(idx) |-> lons(idx[k])])
        tm1 == IF idxD # <<>> THEN Append(tm, <<lat, pick(idxD)>>) ELSE tm
    IN IF idxA # <<>> THEN <<<<lat, pick(idxA)>>>> \o tm1 ELSE tm1

\* one iteration of "for ilat in range(1, npoints+1)": row -ilat
TermRow ==
    /\ ilat \in 1..NPoints
    /\ \E row \in [1..NPoints -> ZenValues] :
         LET r == NPoints + 1 - ilat
         IN /\ zen' = [zen EXCEPT ![r] = row]
            /\ term' = TermAfterRow(term, row, lats(r))
    /\ ilat' = ilat + 1
    /\ UNCHANGED <<jdVars, geomVars, azVars, rsVars, vecVars>>

TermNext == TermRow

(***************************************************************************)
(* Initial states: the arguments of one group of functions are drawn, the  *)
(* other groups are idle.                                                  *)
(***************************************************************************)
InitJD ==
    /\ date \in Dates /\ date2 \in Dates
    /\ jd = NoJd /\ jdOther = NoJd /\ jd2 = NoJd /\ jdpc = "getJD"
    /\ t = 0 /\ L0 = 0 /\ gpc = "idle"
    /\ azIn = <<>> /\ trueSolarTime = 0 /\ hourAngle = 0 /\ apc = "idle"
    /\ rsIn = <<>> /\ rtimeUTC = NaN /\ stimeUTC = NaN
    /\ rnewTimeUTC = NaN /\ snewTimeUTC = NaN /\ rtimeLocal = NaN
    /\ stimeLocal = NaN /\ increment = Unbound /\ jday = Unbound /\ rspc = "idle"
    /\ julian_dates = <<>> /\ locations = <<>> /\ out = <<>> /\ vpc = "idle"
    /\ zen = <<>> /\ ilat = 0 /\ term = <<>>

InitGeom ==
    /\ date = <<>> /\ date2 = <<>>
    /\ jd = NoJd /\ jdOther = NoJd /\ jd2 = NoJd /\ jdpc = "idle"
    /\ t \in TValues /\ L0 = 0 /\ gpc = "poly"
    /\ azIn = <<>> /\ trueSolarTime = 0 /\ hourAngle = 0 /\ apc = "idle"
    /\ rsIn = <<>> /\ rtimeUTC = NaN /\ stimeUTC = NaN
    /\ rnewTimeUTC = NaN /\ snewTimeUTC = NaN /\ rtimeLocal = NaN
    /\ stimeLocal = NaN /\ increment = Unbound /\ jday = Unbound /\ rspc = "idle"
    /\ julian_dates = <<>> /\ locations = <<>> /\ out = <<>> /\ vpc = "idle"
    /\ zen = <<>> /\ ilat = 0 /\ term = <<>>

InitAzEl ==
    /\ date = <<>> /\ date2 = <<>>
    /\ jd = NoJd /\ jdOther = NoJd /\ jd2 = NoJd /\ jdpc = "idle"
    /\ t = 0 /\ L0 = 0 /\ gpc = "idle"
    /\ azIn \in AzInputs /\ trueSolarTime = 0 /\ hourAngle = 0 /\ apc = "start"
    /\ rsIn = <<>> /\ rtimeUTC = NaN /\ stimeUTC = NaN
    /\ rnewTimeUTC = NaN /\ snewTimeUTC = NaN /\ rtimeLocal = NaN
    /\ stimeLocal = NaN /\ increment = Unbound /\ jday = Unbound /\ rspc = "idle"
    /\ julian_dates = <<>> /\ locations = <<>> /\ out = <<>> /\ vpc = "idle"
    /\ zen = <<>> /\ ilat = 0 /\ term = <<>>

InitRiseSet ==
    /\ date = <<>> /\ date2 = <<>>
    /\ jd = NoJd /\ jdOther = NoJd /\ jd2 = NoJd /\ jdpc = "idle"
    /\ t = 0 /\ L0 = 0 /\ gpc = "idle"
    /\ azIn = <<>> /\ trueSolarTime = 0 /\ hourAngle = 0 /\ apc = "idle"
    /\ rsIn \in RsInputs /\ rtimeUTC = NaN /\ stimeUTC = NaN
    /\ rnewTimeUTC = NaN /\ snewTimeUTC = NaN /\ rtimeLocal = NaN
    /\ stimeLocal = NaN /\ increment = Unbound /\ jday = Unbound /\ rspc = "start"
    /\ julian_dates = <<>> /\ locations = <<>> /\ out = <<>> /\ vpc = "idle"
    /\ zen = <<>> /\ ilat = 0 /\ term = <<>>

InitVec ==
    /\ date = <<>> /\ date2 = <<>>
    /\ jd = NoJd /\ jdOther = NoJd /\ jd2 = NoJd /\ jdpc = "idle"
    /\ t = 0 /\ L0 = 0 /\ gpc = "idle"
    /\ azIn = <<>> /\ trueSolarTime = 0 /\ hourAngle = 0 /\ apc = "idle"
    /\ rsIn = <<>> /\ rtimeUTC = NaN /\ stimeUTC = NaN
    /\ rnewTimeUTC = NaN /\ snewTimeUTC = NaN /\ rtimeLocal = NaN
    /\ stimeLocal = NaN /\ increment = Unbound /\ jday = Unbound /\ rspc = "idle"
    /\ julian_dates \in SeqsUpTo({ Num(JdOfDay(d)) : d \in VecDays }, MaxDates)
    /\ locations \in SeqsUpTo(VecLatitudes \X VecLongitudes, MaxStations)
    /\ out = <<>> /\ vpc = "start"
    /\ zen = <<>> /\ ilat = 0 /\ term = <<>>

\* zen = np.zeros((npoints, npoints)), term = [], before the first row
InitTerm ==
    /\ date = <<>> /\ date2 = <<>>
    /\ jd = NoJd /\ jdOther = NoJd /\ jd2 = NoJd /\ jdpc = "idle"
    /\ t = 0 /\ L0 = 0 /\ gpc = "idle"
    /\ azIn = <<>> /\ trueSolarTime = 0 /\ hourAngle = 0 /\ apc = "idle"
    /\ rsIn = <<>> /\ rtimeUTC = NaN /\ stimeUTC = NaN
    /\ rnewTimeUTC = NaN /\ snewTimeUTC = NaN /\ rtimeLocal = NaN
    /\ stimeLocal = NaN /\ increment = Unbound /\ jday = Unbound /\ rspc = "idle"
    /\ julian_dates = <<>> /\ locations = <<>> /\ out = <<>> /\ vpc = "idle"
    /\ zen = [r \in 1..NPoints |-> [c \in 1..NPoints |-> 0]]
    /\ ilat = 1 /\ term = <<>>

(***************************************************************************)
(* Specifications: one per group of functions.                             *)
(***************************************************************************)
SpecJD   == InitJD /\ [][JdNext]_vars
SpecGeom == InitGeom /\ [][GeomNext]_vars
SpecAzEl == InitAzEl /\ [][AzNext]_vars
SpecRiseSet == InitRiseSet /\ [][RsNext]_vars
SpecVec  == InitVec /\ [][VecNext]_vars
SpecTerm == InitTerm /\ [][TermNext]_vars

\* the whole library
Init == InitJD \/ InitGeom \/ InitAzEl \/ InitRiseSet \/ InitVec \/ InitTerm
Next == JdNext \/ GeomNext \/ AzNext \/ RsNext \/ VecNext \/ TermNext
Spec == Init /\ [][Next]_vars

(***************************************************************************)
(* Properties.                                                             *)
(***************************************************************************)

\* C1: calcGeomMeanLongSun returns L0 with 0 <= L0 < 360 for every t, also
\* when the polynomial is an exact multiple of 360.
C1_MeanLongBelow360 ==
    gpc = "done" => (0 <= L0 /\ L0 < Deg360)

\* C2: getJD is strictly increasing: if date precedes date2 in (year,
\* month, day, hour, minute, second) order then getJD(date) < getJD(date2).
C2_GetJDIncreasing ==
    (jdpc \in {"get_jd2", "done"} /\ Precedes(date, date2)) => JdLess(jd, jdOther)

RsCentury   == calcTimeJulianCent(Num(rsIn.jd))
RsEqTime    == calcEquationOfTime(RsCentury)
RsHourAngle == calcHourAngleSunrise(rsIn.latitude, calcSunDeclination(RsCentury))
RsPolar ==
    LET arg == HourAngleArg(rsIn.latitude, calcSunDeclination(RsCentury).v)
    IN arg > TrigScale \/ arg < 0 - TrigScale

\* C4: with a defined hour angle HA, riseUTC = 720 - 4*(lon + deg(HA)) -
\* eqTime and setUTC = 720 - 4*(lon - deg(HA)) - eqTime, their midpoint is
\* calcSolNoonUTC(jd, lon), and setUTC - riseUTC = 8*deg(HA) >= 0.
C4_RiseSetSymmetric ==
    (rspc \notin {"idle", "start"} /\ ~RsHourAngle.nan) =>
        LET ha == Degrees(RsHourAngle).v
            lon == rsIn.longitude
            noon == calcSolNoonUTC(Num(rsIn.jd), lon)
        IN /\ rtimeUTC = Num(720 - 4 * (lon + ha) - RsEqTime.v)
           /\ stimeUTC = Num(720 - 4 * (lon - ha) - RsEqTime.v)
           /\ rtimeUTC.v + stimeUTC.v = 2 * noon.v
           /\ stimeUTC.v - rtimeUTC.v = 8 * ha
           /\ stimeUTC.v - rtimeUTC.v >= 0

\* a call that returned, with a day of more than twelve hours
C4_Witness ==
    /\ rspc = "done"
    /\ ~RsHourAngle.nan
    /\ stimeUTC.v - rtimeUTC.v > 720

InDay(x) == x.nan \/ (0 <= x.v /\ x.v < Ticks(1440))

\* the number of 1440-minute steps that bring x into [0, 1440)
DayDistance(x) ==
    IF x.nan THEN 0
    ELSE IF x.v < 0 THEN (Ticks(1440) - 1 - x.v) \div Ticks(1440)
    ELSE x.v \div Ticks(1440)

\* the statements of calcSunRiseSet still ahead, and within a loop the
\* steps still ahead: a pair that every step must decrease
RsStage ==
    CASE rspc = "start" -> 6 [] rspc = "riseIf" -> 5 [] rspc = "riseLoop" -> 4
      [] rspc = "set" -> 3 [] rspc = "setIf" -> 2 [] rspc = "setLoop" -> 1
      [] OTHER -> 0
RsLoopDistance ==
    CASE rspc = "riseLoop" -> DayDistance(rtimeLocal)
      [] rspc = "setLoop" -> DayDistance(stimeLocal)
      [] OTHER -> 0

\* C5: both normalization loops of calcSunRiseSet terminate (every step
\* of the call decreases the pair (RsStage, RsLoopDistance), which is
\* never negative), a returned local time that is a number lies in
\* [0, 1440), and a loop step raises the time when it is below 0 and
\* lowers it when it is at or above 1440.
C5_LocalTimesNormalized ==
    [][ /\ RsLoopDistance' >= 0
        /\ \/ RsStage' < RsStage
           \/ RsStage' = RsStage /\ RsLoopDistance' < RsLoopDistance
        /\ rspc' = "done" => (InDay(rtimeLocal') /\ InDay(stimeLocal'))
        /\ rspc' \in {"set", "setIf", "setLoop"} => InDay(rtimeLocal')
        /\ (rspc = "riseLoop" /\ rspc' = "riseLoop") =>
              IF rtimeLocal.v < 0 THEN rtimeLocal'.v > rtimeLocal.v
              ELSE rtimeLocal'.v < rtimeLocal.v
        /\ (rspc = "setLoop" /\ rspc' = "setLoop") =>
              IF stimeLocal.v < 0 THEN stimeLocal'.v > stimeLocal.v
              ELSE stimeLocal'.v < stimeLocal.v
      ]_vars

\* C6: get_jd2 adds the Gregorian offset only above 2299160.0 and getJD
\* adds B always, so for every date whose uncorrected Julian Day is at or
\* below 2299160.0 and whose correction term is not zero the two differ.
C6_VariantsDifferBeforeCutover ==
    jdpc = "done" =>
        LET u == Jd2Uncorrected(date)
            offset == GregorianTerm(ShiftedYear(date))
        IN /\ AtOrBeforeCutover(u) => jd2 = u
           /\ ~AtOrBeforeCutover(u) => jd2 = [u EXCEPT !.whole = @ + offset]
           /\ (AtOrBeforeCutover(u) /\ offset # 0
                 /\ GregorianTerm(date.year) # 0) => jd # jd2

\* C7: when the arccosine argument is outside [-1, 1] the hour angle is
\* NaN, calcSunRiseSetUTC returns NaN twice, and calcSunRiseSet returns
\* NaN twice without entering either normalization loop.
C7_PolarIsNaN ==
    (rspc # "idle" /\ RsPolar) =>
        /\ RsHourAngle.nan
        /\ rspc \notin {"riseLoop", "setLoop"}
        /\ jday = Unbound /\ increment = Unbound
        /\ rspc # "start" => (rtimeUTC.nan /\ stimeUTC.nan /\ rtimeLocal.nan)
        /\ rspc = "done" => stimeLocal.nan

\* a call at a polar latitude that returned
C7_Witness ==
    /\ rspc = "done"
    /\ RsPolar
    /\ rtimeLocal.nan /\ stimeLocal.nan

\* the Julian Day formula of getJD on given fields
JDFormula(year, month, d) ==
    [whole |-> WholeDays(year, month, d.day) + GregorianTerm(year),
     sec   |-> d.hour * 3600 + d.minute * 60 + d.second,
     us    |-> 0]

\* C8: for a January date getJD evaluates the formula with month 13 and
\* year - 1, for every other month with the date's own year and month.
C8_JanuaryIsMonth13 ==
    jdpc \in {"get_jd2", "done"} =>
        jd = IF date.month < 2
             THEN JDFormula(date.year - 1, date.month + 12, date)
             ELSE JDFormula(date.year, date.month, date)

\* C9: in calcAzEl the true solar time after normalization is in
\* [0, 1440) and the hour angle is in [-180, 180) (here in quarter degrees).
C9_SolarTimeAndHourAngleInRange ==
    apc = "done" =>
        /\ 0 <= trueSolarTime /\ trueSolarTime < 1440
        /\ 0 - 4 * 180 <= hourAngle /\ hourAngle < 4 * 180

\* a sign change of a between neighbours, downwards and upwards
DescendingChange(a) ==
    \E i \in 2..Len(a) : a[i - 1] * a[i] <= 0 /\ a[i] < a[i - 1]
AscendingChange(a) ==
    \E i \in 1..(Len(a) - 1) : a[i] * a[i + 1] <= 0 /\ a[i] < a[i + 1]

\* the latitudes of the terminator points after k rows if each row gave
\* one appended point per downward change and one prepended point per
\* upward change, and nothing else
RECURSIVE ClaimedLatitudes(_)
ClaimedLatitudes(k) ==
    IF k = 0 THEN <<>>
    ELSE LET r == NPoints + 1 - k
             a == [i \in 1..NPoints |-> 90 - zen[r][i]]
             prev == ClaimedLatitudes(k - 1)
             p1 == IF DescendingChange(a) THEN Append(prev, lats(r)) ELSE prev
         IN IF AscendingChange(a) THEN <<lats(r)>> \o p1 ELSE p1

\* C10: each row gives exactly one point for a direction in which some
\* neighbouring pair changes sign and none for a direction in which no
\* pair does; downward points are appended, upward ones prepended; at
\* most two points per row.
C10_OnePointPerSignChange ==
    ilat >= 1 =>
        /\ [i \in 1..Len(term) |-> term[i][1]] = ClaimedLatitudes(ilat - 1)
        /\ Len(term) <= 2 * (ilat - 1)

====
